---- MODULE Spec2Model ----
(***************************************************************************)
(* Model of the CybernateAI client session (src/src/index.js): the         *)
(* connection lifecycle, the socket.io stream with its reconnect and       *)
(* connection-timeout timers, the listener table and the watch registry.   *)
(*                                                                         *)
(* One step of the model is one JavaScript job: a public method called by  *)
(* the application, an HTTP response being delivered, a socket.io event    *)
(* handler, or a timer callback.  A promise continuation runs as a         *)
(* microtask right after the job that settles the promise, so it is part   *)
(* of that step.                                                           *)
(*                                                                         *)
(* The state holds what is live: the method invocations that have not      *)
(* settled, and the stream-setup attempts that can still act (a pending    *)
(* promise, an armed timer, an open socket, or the socket this.socket      *)
(* refers to).  What a job did and returned is recorded in `last`.         *)
(***************************************************************************)
EXTENDS Integers, Sequences, FiniteSets, TLC

\* ------------------------------------------------------------------ bounds
MaxConnects == 2     \* connect() invocations in flight at the same time
MaxAttempts == 2     \* live _setupWebSocket() attempts at the same time
MaxRetries == 1      \* retryWebSocketConnection() invocations in flight
MaxTimers == 2       \* reconnect timers pending at the same time
MaxRequests == 1     \* resource requests in flight at the same time
MaxListeners == 3    \* registrations in the listener table

\* --------------------------------------------------------------- variables
VARIABLES
  cfg,             \* constructor options: autoReconnect, enableWebSocket,
                   \* reconnectAttempts, and whether socket.io-client resolves
  isConnected,     \* this.isConnected
  isConnecting,    \* this.isConnecting
  reconnectCount,  \* this.reconnectCount
  socket,          \* this.socket: 0 is null, otherwise the index in attempts
                   \* of the _setupWebSocket() call that created the socket
  attempts,        \* the live _setupWebSocket() calls in the order they were
                   \* made: whether its promise is pending, whether its
                   \* connectionTimeout timer is armed, and its socket:
                   \* "opening", "up" (connected) or "closed" (disconnected
                   \* by either side: it emits nothing more)
  timers,          \* number of pending reconnect timers (setTimeout of the
                   \* 'disconnect' handler)
  connects,        \* the connect() invocations in flight
  retries,         \* the retryWebSocketConnection() invocations in flight
  eventListeners,  \* this.eventListeners: tag -> sequence of callbacks
  activeWatchers,  \* this.activeWatchers: a Map, as its entries in insertion
                   \* order
  requests,        \* resource requests awaiting their HTTP response
  rateLimit,       \* this.rateLimit: the snapshot of the rate-limit headers
  user,            \* this.user: "none" until a validation answer sets it
  organization,    \* this.organization, likewise
  autoAttempts,    \* history: the automatic reconnect attempts made since
                   \* construction or the last disconnect(), counted up to
                   \* one more than reconnectAttempts
  last             \* the job that produced this state and what it returned

vars == <<cfg, isConnected, isConnecting, reconnectCount, socket, attempts,
          timers, connects, retries, eventListeners, activeWatchers, requests,
          rateLimit, user, organization, autoAttempts, last>>

\* ------------------------------------------------------------- the domains
\* options.reconnectAttempts || 5: never 0
ReconnectAttemptsTried == {1, 2}

\* The tags that can be own keys of this.eventListeners, and a key that every
\* object literal inherits from Object.prototype.
OwnTags == {"detection", "alert", "notification", "system", "all"}
ProtoKeys == {"constructor"}
AllTags == OwnTags \cup ProtoKeys

\* The callbacks the application registers: "boom" throws when it is called;
\* "notFn" is a value that is not a function.
Callbacks == {"f", "g", "boom"}
Throws(cb) == cb = "boom"
IsFunction(cb) == cb # "notFn"

\* an absent key of this.eventListeners is the empty list: on(), off() and
\* _dispatchEvent() treat the two alike
NoListeners == [t \in OwnTags |-> <<>>]

\* The rate-limit headers of a response: the fields present (X-RateLimit-
\* Limit, -Remaining, -Reset) and the number they carry.  NoHeaders is also
\* the request that gets no response.
RateFields == {"limit", "remaining", "reset"}
NoHeaders == [present |-> {}, val |-> 0]

\* What a job did: connect is what a connect() invocation returned in it
\* ("started": it went on to its request), retry the same for
\* retryWebSocketConnection(), setup whether it called _setupWebSocket() and
\* a socket came of it, settled how a setup promise was settled in it,
\* returned the object a connect() resolved with in it, body the body of the
\* validation answer it handled and headers the rate-limit headers of that
\* answer.
Job(name) ==
  [op |-> name, connect |-> "none", retry |-> "none", setup |-> "none",
   settled |-> "none", returned |-> "none", body |-> "none",
   headers |-> NoHeaders]

\* The bodies of the answers to GET /auth/validate: the user and the
\* organization of the API key.  NoIdentity is a body without the two
\* fields, which leaves this.user and this.organization undefined; the
\* specifications that do not look at the identity use it.
NoIdentity == [user |-> "none", organization |-> "none"]
Identity1 == [user |-> "u1", organization |-> "o1"]
Identity2 == [user |-> "u2", organization |-> "o2"]

\* ------------------------------------------------------------ constructor
Init ==
  /\ cfg \in [autoReconnect : BOOLEAN, enableWebSocket : BOOLEAN,
              socketAvail : BOOLEAN,
              reconnectAttempts : ReconnectAttemptsTried]
  /\ isConnected = FALSE
  /\ isConnecting = FALSE
  /\ reconnectCount = 0
  /\ socket = 0
  /\ attempts = <<>>
  /\ timers = 0
  /\ connects = <<>>
  /\ retries = <<>>
  /\ eventListeners = NoListeners
  /\ activeWatchers = <<>>
  /\ requests = <<>>
  /\ rateLimit = [limit |-> 0, remaining |-> 0, reset |-> 0]
  /\ user = "none"
  /\ organization = "none"
  /\ autoAttempts = 0
  /\ last = Job("new")

\* _socketIsEnabled(): socket.io-client can be loaded
SocketIsEnabled == cfg.socketAvail

\* this.socket?.connected
SocketConnected(atts, sock) == sock # 0 /\ atts[sock].st = "up"

\* a cleanup that drops the reference and leaves the socket open
LeaveSocketOpen(atts, s) == atts

\* socket.disconnect() called by the client on socket s
CloseSocket(atts, s) ==
  IF s = 0 THEN atts ELSE [atts EXCEPT ![s].st = "closed"]

\* ------------------------------------------------------- _setupWebSocket
\* The record of a _setupWebSocket() call that created its socket.
NewAttempt ==
  [pending |-> TRUE, armed |-> TRUE, st |-> "opening"]

\* The synchronous part of _setupWebSocket(): the promise executor.  The old
\* socket is disconnected and dropped, a new socket is created, the handlers
\* are attached and the connectionTimeout timer is armed.  created = FALSE is
\* the call that rejects before a socket exists (socket.io-client missing,
\* io() throwing).
SetupWebSocket(atts, sock, ioThrows) ==
  IF ~SocketIsEnabled
    THEN [attempts |-> atts, socket |-> sock, created |-> FALSE]
    ELSE LET cleaned == CloseSocket(atts, sock) IN
         IF ioThrows
           THEN [attempts |-> cleaned, socket |-> 0, created |-> FALSE]
           ELSE [attempts |-> Append(cleaned, NewAttempt),
                 socket |-> Len(atts) + 1, created |-> TRUE]

SetupResult(r) == IF r.created THEN "created" ELSE "failed"

\* resolve() / reject() of attempt a: a settled promise stays as it is
Settle(atts, a) == [atts EXCEPT ![a].pending = FALSE]

\* An attempt that can no longer act or be observed: its promise is settled,
\* its timer is not armed, its socket emits nothing more and this.socket
\* refers to another.
Dead(atts, sock, a) ==
  /\ ~atts[a].pending
  /\ ~atts[a].armed
  /\ atts[a].st = "closed"
  /\ sock # a

\* The next state's attempts, socket, connects and retries: the dead attempts
\* are dropped and the references to the others follow.
Store(atts, sock, cs, rs) ==
  LET keep == {a \in DOMAIN atts : ~Dead(atts, sock, a)}
      idx(a) == Cardinality({b \in keep : b <= a})
      nth(k) == CHOOSE a \in keep : idx(a) = k
      ref(x) == IF x.att = 0 THEN x ELSE [x EXCEPT !.att = idx(@)]
  IN /\ attempts' = [k \in 1..Cardinality(keep) |-> atts[nth(k)]]
     /\ socket' = IF sock = 0 THEN 0 ELSE idx(sock)
     /\ connects' = [i \in DOMAIN cs |-> ref(cs[i])]
     /\ retries' = [j \in DOMAIN rs |-> ref(rs[j])]

\* ---------------------------------------------------------------- _request
\* a tracker that writes all three fields, 0 for an absent header
TrackRateLimitZeroes(rl, h) ==
  [f \in RateFields |-> IF f \in h.present THEN h.val ELSE 0]

\* _request() after fetch(): each header present overwrites its field
TrackRateLimit(rl, h) ==
  [f \in RateFields |-> IF f \in h.present THEN h.val ELSE rl[f]]

\* A failed request: the status of the response (0: fetch() rejected, no
\* response was received) and a text, which is the message of the error
\* fetch() rejected with or the message field of the response's JSON body
\* ("none": the body has none).
NoResponse == [status |-> 0, text |-> "fetch failed"]
NotFound == [status |-> 404, text |-> "none"]
FailureStatuses == {400, 401, 403, 404, 429, 500, 503}
Failures ==
  [status : {0}, text : {"fetch failed", "The operation was aborted"}]
    \cup [status : FailureStatuses,
          text : {"none", "quota exceeded", "could not fetch stream"}]

\* error.message.includes('fetch'), for a message made of the given parts
IncludesFetch(parts) ==
  \E k \in DOMAIN parts :
    parts[k] \in {"fetch failed", "could not fetch stream"}

\* errorData.message || fallback
OrElse(text, fallback) == IF text = "none" THEN fallback ELSE text

\* The message of the error thrown inside the try block of _request(), as
\* the parts it is concatenated from: the error of fetch() itself, or the
\* one made from the status and errorData.
ThrownInTry(f) ==
  IF f.status = 0 THEN <<f.text>>
  ELSE IF f.status = 401
    THEN <<"Authentication failed: ", OrElse(f.text, "Invalid API key")>>
  ELSE IF f.status = 403
    THEN <<"Access forbidden: ", OrElse(f.text, "Insufficient permissions")>>
  ELSE IF f.status = 404
    THEN <<"Endpoint not found: ",
           OrElse(f.text, "The requested resource was not found")>>
  ELSE IF f.status >= 500
    THEN <<"Server error: ", OrElse(f.text, "Internal server error")>>
  ELSE IF f.text = "none" THEN <<"HTTP error ", ToString(f.status)>>
  ELSE <<f.text>>

\* The message of the error _request() rejects with: its catch block also
\* catches the errors thrown for a non-2xx status.
RequestError(f) ==
  IF IncludesFetch(ThrownInTry(f))
    THEN <<"Network error: Unable to connect to ", "url",
           ". Please check your internet connection.">>
    ELSE <<"API request failed: ">> \o ThrownInTry(f)

\* ---------------------------------------------------------------- connect
\* connect() without the inner try/catch: a rejected setup reaches the outer
\* catch
ConnectFinishNoCatch(setupOk) ==
  [result |-> IF setupOk THEN "resolved" ELSE "rejected",
   isConnected |-> setupOk, isConnecting |-> FALSE]

\* connect() after its stream-setup step: the inner try/catch swallows a
\* rejected setup, then isConnected = true, isConnecting = false, return.
ConnectFinish(setupOk) ==
  [result |-> "resolved", isConnected |-> TRUE, isConnecting |-> FALSE]

\* an outer catch that rethrows without resetting the flag
ConnectFailKeepsFlag ==
  [result |-> "rejected", isConnected |-> FALSE, isConnecting |-> TRUE]

\* the result object of the earlier connect(), without websocketEnabled
ConnectResultPlain(u, o, ws) ==
  [connected |-> TRUE, user |-> u, organization |-> o]

\* the object connect() returns: this.user, this.organization and
\* !!this.socket?.connected as they are when it returns
ConnectResult(u, o, ws) ==
  [connected |-> TRUE, user |-> u, organization |-> o,
   websocketEnabled |-> ws]

\* connect()'s outer catch: the validation request failed
ConnectFail ==
  [result |-> "rejected", isConnected |-> FALSE, isConnecting |-> FALSE]

\* retryWebSocketConnection() after its await: true, or false from the catch
RetryFinish(setupOk) == IF setupOk THEN "true" ELSE "false"

AwaitsC(c, a) == c.pc = "setup" /\ c.att = a
AwaitsR(r, a) == r.att = a

\* The rest of a job in which attempt a may have been settled (settles: its
\* promise was pending and resolve or reject was called): the continuations
\* awaiting it run.  atts and sock are the attempts and this.socket the job
\* leaves.
Finish(job, atts, sock, a, settles, ok) ==
  LET resumedC == settles /\ \E i \in DOMAIN connects : AwaitsC(connects[i], a)
      resumedR == settles /\ \E j \in DOMAIN retries : AwaitsR(retries[j], a)
      cs == IF settles
              THEN SelectSeq(connects, LAMBDA c : ~AwaitsC(c, a)) ELSE connects
      rs == IF settles
              THEN SelectSeq(retries, LAMBDA r : ~AwaitsR(r, a)) ELSE retries
  IN /\ Store(atts, sock, cs, rs)
     /\ isConnected' = IF resumedC THEN ConnectFinish(ok).isConnected
                       ELSE isConnected
     /\ isConnecting' = IF resumedC THEN ConnectFinish(ok).isConnecting
                        ELSE isConnecting
     /\ last' = [job EXCEPT
                   !.connect = IF resumedC THEN ConnectFinish(ok).result ELSE "none",
                   !.returned =
                     IF resumedC /\ ConnectFinish(ok).result = "resolved"
                       THEN ConnectResult(user, organization,
                                          SocketConnected(atts, sock))
                       ELSE "none",
                   !.retry = IF resumedR THEN RetryFinish(ok) ELSE "none",
                   !.settled = IF ~settles THEN "none"
                               ELSE IF ok THEN "resolved" ELSE "rejected"]

\* connect() without its guard
NoConnectGuard == FALSE

\* the guard at the top of connect()
ConnectGuard == isConnecting

\* connect() up to its first await
ConnectCall ==
  /\ IF ConnectGuard
       THEN /\ last' = [Job("connect") EXCEPT !.connect = "inProgress"]
            /\ UNCHANGED <<connects, isConnecting>>
       ELSE /\ Len(connects) < MaxConnects
            /\ connects' = Append(connects, [pc |-> "validate", att |-> 0])
            /\ isConnecting' = TRUE
            /\ last' = [Job("connect") EXCEPT !.connect = "started"]
  /\ UNCHANGED <<cfg, user, organization, rateLimit,
                 isConnected, reconnectCount, socket,
                 attempts, timers, retries, eventListeners, activeWatchers,
                 requests, autoAttempts>>

ValidateJob(body, h) ==
  [Job("validateOk") EXCEPT !.body = body, !.headers = h]

\* GET /auth/validate answered with 2xx, headers h and the given body for
\* invocation i
ValidateOk(i, h, body) ==
  /\ connects[i].pc = "validate"
  /\ rateLimit' = TrackRateLimit(rateLimit, h)
  /\ user' = body.user
  /\ organization' = body.organization
  /\ LET others == SelectSeq([k \in DOMAIN connects |->
                                IF k = i THEN [pc |-> "done", att |-> 0]
                                ELSE connects[k]],
                             LAMBDA c : c.pc # "done")
     IN
     IF cfg.enableWebSocket /\ SocketIsEnabled
       THEN /\ Len(attempts) < MaxAttempts
            /\ \E ioThrows \in BOOLEAN :
                 LET r == SetupWebSocket(attempts, socket, ioThrows)
                 IN IF r.created
                      THEN /\ Store(r.attempts, r.socket,
                                    [connects EXCEPT ![i].pc = "setup",
                                                     ![i].att = r.socket],
                                    retries)
                           /\ last' = [ValidateJob(body, h) EXCEPT
                                         !.setup = SetupResult(r)]
                           /\ UNCHANGED <<isConnected, isConnecting>>
                      ELSE /\ Store(r.attempts, r.socket, others, retries)
                           /\ isConnected' = ConnectFinish(FALSE).isConnected
                           /\ isConnecting' = ConnectFinish(FALSE).isConnecting
                           /\ last' = [ValidateJob(body, h) EXCEPT
                                         !.setup = SetupResult(r),
                                         !.connect = ConnectFinish(FALSE).result,
                                         !.returned =
                                           ConnectResult(body.user,
                                             body.organization,
                                             SocketConnected(r.attempts,
                                                             r.socket))]
       ELSE /\ connects' = others
            /\ isConnected' = ConnectFinish(TRUE).isConnected
            /\ isConnecting' = ConnectFinish(TRUE).isConnecting
            /\ last' = [ValidateJob(body, h) EXCEPT
                          !.connect = ConnectFinish(TRUE).result,
                          !.returned =
                            ConnectResult(body.user, body.organization,
                                          SocketConnected(attempts, socket))]
            /\ UNCHANGED <<attempts, socket, retries>>
  /\ UNCHANGED <<cfg, reconnectCount, timers, eventListeners, activeWatchers,
                 requests, autoAttempts>>

\* GET /auth/validate failed: no response, or a non-2xx status with headers h
ValidateFail(i, h) ==
  /\ connects[i].pc = "validate"
  /\ rateLimit' = TrackRateLimit(rateLimit, h)
  /\ connects' = SelectSeq([k \in DOMAIN connects |->
                              IF k = i THEN [pc |-> "done", att |-> 0]
                              ELSE connects[k]],
                           LAMBDA c : c.pc # "done")
  /\ isConnected' = ConnectFail.isConnected
  /\ isConnecting' = ConnectFail.isConnecting
  /\ last' = [Job("validateFail") EXCEPT !.connect = ConnectFail.result,
                                          !.headers = h]
  /\ UNCHANGED <<cfg, user, organization, reconnectCount, socket, attempts,
                 timers, retries, eventListeners, activeWatchers, requests,
                 autoAttempts>>

\* ------------------------------------------------------------- disconnect
\* a disconnect() that only tears the socket down
DisconnectKeeps ==
  [reconnectCount |-> reconnectCount, activeWatchers |-> activeWatchers]

\* what disconnect() leaves in reconnectCount and in the registry
DisconnectResets == [reconnectCount |-> 0, activeWatchers |-> <<>>]

\* a disconnect() that forgets this.socket = null
SocketKeptAfterDisconnect == socket

\* this.socket after disconnect(): null
SocketAfterDisconnect == 0

\* disconnect(); last records what it found: a socket (hadSocket) that it
\* closed, watchers, the counter, and whether the job before it was a
\* disconnect() too (again)
Disconnect ==
  /\ Store(CloseSocket(attempts, socket), SocketAfterDisconnect, connects,
           retries)
  /\ isConnected' = FALSE
  /\ isConnecting' = FALSE
  /\ reconnectCount' = DisconnectResets.reconnectCount
  /\ activeWatchers' = DisconnectResets.activeWatchers
  /\ last' = [op |-> "disconnect", connect |-> "none", retry |-> "none",
              setup |-> "none", settled |-> "none",
              hadSocket |-> socket # 0,
              closed |-> (socket # 0
                          /\ CloseSocket(attempts, socket)[socket].st = "closed"),
              hadWatchers |-> activeWatchers # <<>>, count |-> reconnectCount,
              again |-> (last.op = "disconnect")]
  /\ autoAttempts' = 0
  /\ UNCHANGED <<cfg, user, organization, rateLimit,
                 timers, eventListeners, requests>>

\* ------------------------------------------- socket.io events on a socket
\* a 'connect' handler that leaves the counter alone
OnConnectKeeps(count) == count

\* 'connect': what the handler leaves in reconnectCount
OnConnect(count) == 0

\* 'connect': the acknowledgment arrives on socket s.  Both 'connect' handlers
\* run: reconnectCount = 0, resolve(), clearTimeout(connectionTimeout).
SocketConnect(s) ==
  /\ attempts[s].st = "opening"
  /\ reconnectCount' = OnConnect(reconnectCount)
  /\ Finish(Job("sockConnect"),
            [Settle(attempts, s) EXCEPT ![s].st = "up", ![s].armed = FALSE],
            socket, s, attempts[s].pending, TRUE)
  /\ UNCHANGED <<cfg, user, organization, rateLimit,
                 timers, eventListeners, activeWatchers,
                 requests, autoAttempts>>

\* a 'disconnect' handler that marks the session disconnected
ServerDisconnectDrops(connected) == FALSE

\* The 'disconnect' handler, reason 'io server disconnect': what it leaves in
\* isConnected (it touches only the reconnect timer).
OnServerDisconnect(connected) == connected

\* 'disconnect' with reason 'io server disconnect': socket.io closes the
\* socket and does not reconnect it by itself.  With autoReconnect the handler
\* schedules the reconnect timer.
SocketServerDisconnect(s) ==
  /\ attempts[s].st = "up"
  /\ IF cfg.autoReconnect
       THEN timers < MaxTimers /\ timers' = timers + 1
       ELSE UNCHANGED timers
  /\ Store([attempts EXCEPT ![s].st = "closed"], socket, connects, retries)
  /\ isConnected' = OnServerDisconnect(isConnected)
  /\ last' = Job("sockServerDisconnect")
  /\ UNCHANGED <<cfg, user, organization, rateLimit,
                 isConnecting, reconnectCount,
                 eventListeners, activeWatchers, requests, autoAttempts>>

\* 'disconnect' with another reason (transport close, ping timeout): the
\* handler only logs; socket.io itself reconnects the socket when the
\* reconnection option (autoReconnect) is on.
SocketTransportClose(s) ==
  /\ attempts[s].st = "up"
  /\ Store([attempts EXCEPT
              ![s].st = IF cfg.autoReconnect THEN "opening" ELSE "closed"],
           socket, connects, retries)
  /\ last' = Job("sockTransportClose")
  /\ UNCHANGED <<cfg, user, organization, rateLimit,
                 isConnected, isConnecting, reconnectCount,
                 timers, eventListeners, activeWatchers, requests,
                 autoAttempts>>

\* 'connect_error': rejects only while reconnectCount is 0.  socket.io keeps
\* trying to connect the socket only when the reconnection option
\* (autoReconnect) is on.
SocketConnectError(s) ==
  /\ attempts[s].st = "opening"
  /\ LET rejects == reconnectCount = 0
         atts == IF rejects THEN Settle(attempts, s) ELSE attempts
     IN Finish(Job("sockConnectError"),
               [atts EXCEPT ![s].st = IF cfg.autoReconnect THEN @ ELSE "closed"],
               socket, s, rejects /\ attempts[s].pending, FALSE)
  /\ UNCHANGED <<cfg, user, organization, rateLimit,
                 reconnectCount, timers, eventListeners,
                 activeWatchers, requests, autoAttempts>>

\* ------------------------------------------------------------------ timers
\* connectionTimeout of attempt a fires.  The timers all have the same delay
\* (this.timeout), so they fire in the order they were armed.
ConnectionTimeout(a) ==
  /\ attempts[a].armed
  /\ \A b \in 1..(a - 1) : ~attempts[b].armed
  /\ IF ~SocketConnected(attempts, socket)
       THEN Finish(Job("connTimeout"),
                   [Settle(CloseSocket(attempts, socket), a)
                      EXCEPT ![a].armed = FALSE],
                   socket, a, attempts[a].pending, FALSE)
       ELSE Finish(Job("connTimeout"),
                   [attempts EXCEPT ![a].armed = FALSE],
                   socket, a, FALSE, FALSE)
  /\ UNCHANGED <<cfg, user, organization, rateLimit,
                 reconnectCount, timers, eventListeners,
                 activeWatchers, requests, autoAttempts>>

\* a test that lets the counter pass the maximum by one
MayReconnectInclusive(count) == count <= cfg.reconnectAttempts

\* the test of the reconnect timer's callback
MayReconnect(count) == count < cfg.reconnectAttempts

\* The reconnect timer scheduled by the 'disconnect' handler fires.
ReconnectTimer ==
  /\ timers > 0
  /\ timers' = timers - 1
  /\ IF MayReconnect(reconnectCount)
       THEN /\ Len(attempts) < MaxAttempts
            /\ reconnectCount' = reconnectCount + 1
            /\ autoAttempts' = IF autoAttempts <= cfg.reconnectAttempts
                                THEN autoAttempts + 1 ELSE autoAttempts
            /\ \E ioThrows \in BOOLEAN :
                 LET r == SetupWebSocket(attempts, socket, ioThrows)
                 IN /\ Store(r.attempts, r.socket, connects, retries)
                    /\ last' = [Job("reconnectTimer") EXCEPT
                                  !.setup = SetupResult(r)]
       ELSE /\ UNCHANGED <<reconnectCount, attempts, socket, connects,
                           retries, autoAttempts>>
            /\ last' = Job("reconnectTimer")
  /\ UNCHANGED <<cfg, user, organization, rateLimit,
                 isConnected, isConnecting, eventListeners,
                 activeWatchers, requests>>

\* ------------------------------------------------ retryWebSocketConnection
\* the first test of retryWebSocketConnection(): TRUE when it throws
RetryThrows == ~cfg.enableWebSocket \/ ~SocketIsEnabled

\* a retry that also gives up once the reconnect counter is at its ceiling
RetryHonoursCeiling ==
  SocketConnected(attempts, socket) \/ reconnectCount >= cfg.reconnectAttempts

\* the second test of retryWebSocketConnection(): TRUE when it returns true
\* without a setup attempt
RetryReturnsEarly == SocketConnected(attempts, socket)

RetryCall ==
  /\ IF RetryThrows
       THEN /\ last' = [Job("retry") EXCEPT !.retry = "threw"]
            /\ UNCHANGED <<attempts, socket, connects, retries>>
       ELSE IF RetryReturnsEarly
         THEN /\ last' = [Job("retry") EXCEPT !.retry = "true"]
              /\ UNCHANGED <<attempts, socket, connects, retries>>
         ELSE /\ Len(attempts) < MaxAttempts
              /\ Len(retries) < MaxRetries
              /\ \E ioThrows \in BOOLEAN :
                   LET r == SetupWebSocket(attempts, socket, ioThrows)
                   IN /\ Store(r.attempts, r.socket, connects,
                               IF r.created
                                 THEN Append(retries, [att |-> r.socket])
                                 ELSE retries)
                      /\ last' = [Job("retry") EXCEPT
                                    !.setup = SetupResult(r),
                                    !.retry = IF r.created THEN "none"
                                              ELSE RetryFinish(FALSE)]
  /\ UNCHANGED <<cfg, user, organization, rateLimit,
                 isConnected, isConnecting, reconnectCount,
                 timers, eventListeners, activeWatchers, requests,
                 autoAttempts>>

\* ---------------------------------------------------------- listener table
RECURSIVE SumLen(_, _)
SumLen(ls, tags) ==
  IF tags = {} THEN 0
  ELSE LET t == CHOOSE x \in tags : TRUE IN Len(ls[t]) + SumLen(ls, tags \ {t})

\* number of registrations the listener table holds
Registrations(ls) == SumLen(ls, OwnTags)

\* on(event, callback).  A non-function callback throws; a tag that names an
\* inherited property of the object literal finds a non-array under it and
\* push throws a TypeError.  Then the lazy stream setup, whose rejection is
\* only logged.
On(tag, cb) ==
  IF ~IsFunction(cb) \/ tag \in ProtoKeys
    THEN /\ last' = [op |-> "on", tag |-> tag, cb |-> cb, threw |-> TRUE,
                     setup |-> "none"]
         /\ UNCHANGED <<cfg, user, organization, rateLimit,
                        isConnected, isConnecting,
                        reconnectCount, socket, attempts, timers, connects,
                        retries, eventListeners, activeWatchers, requests,
                        autoAttempts>>
    ELSE /\ eventListeners' = [eventListeners EXCEPT ![tag] = Append(@, cb)]
         /\ IF cfg.enableWebSocket /\ SocketIsEnabled
                /\ ~SocketConnected(attempts, socket)
              THEN /\ Len(attempts) < MaxAttempts
                   /\ \E ioThrows \in BOOLEAN :
                        LET r == SetupWebSocket(attempts, socket, ioThrows)
                        IN /\ Store(r.attempts, r.socket, connects, retries)
                           /\ last' = [op |-> "on", tag |-> tag, cb |-> cb,
                                       threw |-> FALSE, setup |-> SetupResult(r)]
              ELSE /\ UNCHANGED <<attempts, socket, connects, retries>>
                   /\ last' = [op |-> "on", tag |-> tag, cb |-> cb,
                               threw |-> FALSE, setup |-> "none"]
         /\ UNCHANGED <<cfg, user, organization, rateLimit,
                        isConnected, isConnecting,
                        reconnectCount, timers, activeWatchers, requests,
                        autoAttempts>>

\* the filter of off(event, callback)
Without(cbs, cb) == SelectSeq(cbs, LAMBDA c : c # cb)

\* off(event, callback); cb = "none" is the call without a callback
Off(tag, cb) ==
  /\ IF tag \in ProtoKeys
       THEN \* the inherited value is truthy: delete is a no-op, filter throws
            /\ UNCHANGED eventListeners
            /\ last' = [op |-> "off", tag |-> tag, cb |-> cb,
                        threw |-> (cb # "none")]
       ELSE /\ eventListeners' =
                 [eventListeners EXCEPT
                    ![tag] = IF cb = "none" THEN <<>> ELSE Without(@, cb)]
            /\ last' = [op |-> "off", tag |-> tag, cb |-> cb, threw |-> FALSE]
  /\ UNCHANGED <<cfg, user, organization, rateLimit,
                 isConnected, isConnecting, reconnectCount,
                 socket, attempts, timers, connects, retries, activeWatchers,
                 requests, autoAttempts>>

\* the call of a callback without the try/catch
CallUnguarded(cb) == Throws(cb)

\* try { callback(eventData) } catch (error) { console.error(...) }: whether
\* an exception of the callback leaves the loop body
TryCall(cb) == FALSE

\* listeners.forEach(callback => try/catch): the callbacks called, and
\* whether an exception left the loop
RECURSIVE ForEach(_, _)
ForEach(cbs, acc) ==
  IF cbs = <<>> THEN [invoked |-> acc, threw |-> FALSE]
  ELSE IF TryCall(Head(cbs))
         THEN [invoked |-> Append(acc, Head(cbs)), threw |-> TRUE]
         ELSE ForEach(Tail(cbs), Append(acc, Head(cbs)))

\* eventData.eventType || 'detection'; "none" is a payload without the field
EventTypeOf(eventType) == IF eventType = "none" THEN "detection" ELSE eventType

\* _dispatchEvent(eventData): the listeners of the event's type, then those
\* of 'all'.  Under an inherited key the value has no forEach: a TypeError
\* leaves _dispatchEvent before any callback is called.
DispatchEvent(ls, eventType) ==
  LET type == EventTypeOf(eventType) IN
  IF type \in ProtoKeys
    THEN [type |-> type, invoked |-> <<>>, threw |-> "TypeError"]
    ELSE LET first == ForEach(ls[type], <<>>) IN
         IF first.threw
           THEN [type |-> type, invoked |-> first.invoked, threw |-> "callback"]
           ELSE LET second == ForEach(ls["all"], first.invoked) IN
                [type |-> type, invoked |-> second.invoked,
                 threw |-> IF second.threw THEN "callback" ELSE "no"]

\* handlers that all pass the payload on as it came
HandlerKeepsType(message, eventType) == eventType

\* the eventType the 'event', 'notification' and 'system' handlers dispatch
HandlerType(message, eventType) ==
  IF message = "event" THEN eventType ELSE message

\* an inbound 'event', 'notification' or 'system' message on socket s
SocketMessage(s, message, eventType) ==
  /\ attempts[s].st = "up"
  /\ LET d == DispatchEvent(eventListeners, HandlerType(message, eventType))
     IN last' = [op |-> "message", message |-> message,
                 eventType |-> eventType, type |-> d.type,
                 invoked |-> d.invoked, threw |-> d.threw]
  /\ UNCHANGED <<cfg, user, organization, rateLimit,
                 isConnected, isConnecting, reconnectCount,
                 socket, attempts, timers, connects, retries, eventListeners,
                 activeWatchers, requests, autoAttempts>>

\* ------------------------------------------------------------ watch registry
HasKey(m, id) == \E k \in DOMAIN m : m[k].id = id

\* a set that adds an entry whether or not the key is there
MapAppend(m, id, val) == Append(m, [id |-> id, val |-> val])

\* Map.prototype.set: an existing key keeps its place and takes the value
MapSet(m, id, val) ==
  IF HasKey(m, id)
    THEN [k \in DOMAIN m |->
            IF m[k].id = id THEN [id |-> id, val |-> val] ELSE m[k]]
    ELSE Append(m, [id |-> id, val |-> val])

\* Map.prototype.delete
MapDelete(m, id) == SelectSeq(m, LAMBDA e : e.id # id)

\* for (const watcher of response.watchers) this.activeWatchers.set(...)
RECURSIVE SetAll(_, _)
SetAll(m, ws) ==
  IF ws = <<>> THEN m
  ELSE SetAll(MapSet(m, Head(ws).id, Head(ws).val), Tail(ws))

\* a connected check that never throws
NoConnectedCheck == FALSE

\* _ensureConnected(): TRUE when it throws
EnsureConnectedThrows == ~isConnected

\* a default that looks at the stream capability instead of the connection
DefaultByCapability(ns) ==
  IF ns # "none" THEN ns
  ELSE IF cfg.enableWebSocket /\ SocketIsEnabled THEN "socket"
  ELSE "webhookNoUrl"

\* a default that is always the webhook
DefaultWebhook(ns) == IF ns # "none" THEN ns ELSE "webhookNoUrl"

\* payload.notificationSettings of watch(): the caller's, or the default
NotificationMethod(ns) ==
  IF ns # "none" THEN ns
  ELSE IF SocketConnected(attempts, socket) THEN "socket" ELSE "webhookNoUrl"

Remove(seq, r) ==
  [k \in 1..(Len(seq) - 1) |-> IF k < r THEN seq[k] ELSE seq[k + 1]]

ResourceFrame ==
  UNCHANGED <<cfg, user, organization, isConnected, isConnecting,
              reconnectCount, socket, attempts, timers, connects, retries,
              eventListeners, autoAttempts>>

\* A resource method up to its await: result is "notConnected" or
\* "validation" (it threw before any request) or "sent".
Call(op, result, id, info) ==
  /\ result = "sent" => Len(requests) < MaxRequests
  /\ requests' = IF result = "sent"
                   THEN Append(requests, [op |-> op, id |-> id])
                   ELSE requests
  /\ last' = [op |-> op, result |-> result, id |-> id, info |-> info]
  /\ UNCHANGED <<activeWatchers, rateLimit>>
  /\ ResourceFrame

\* watch(options).  target: one of streamUrl, deviceId and businessId is
\* given; ns: "none", "socket", "webhookUrl" (a webhook with its URL) or
\* "webhookNoUrl".
WatchResult(target, ns) ==
  IF EnsureConnectedThrows THEN "notConnected"
  ELSE IF ~target THEN "validation"
  ELSE IF NotificationMethod(ns) = "webhookNoUrl" THEN "validation"
  ELSE "sent"

Watch(target, ns) ==
  Call("watch", WatchResult(target, ns), "",
       [target |-> target, ns |-> ns, method |-> NotificationMethod(ns),
        streamUp |-> SocketConnected(attempts, socket)])

\* unwatch(watcherId); id = "" is the call without a watcherId
UnwatchResult(id) ==
  IF EnsureConnectedThrows THEN "notConnected"
  ELSE IF id = "" THEN "validation"
  ELSE "sent"

Unwatch(id) == Call("unwatch", UnwatchResult(id), id, <<>>)

\* getActiveWatchers(), and queryEvents() for the facade methods that only
\* forward a request
ForwardResult == IF EnsureConnectedThrows THEN "notConnected" ELSE "sent"

GetActiveWatchers == Call("getActiveWatchers", ForwardResult, "", <<>>)

QueryEvents == Call("queryEvents", ForwardResult, "", <<>>)

\* deleteWebhook(webhookId); id = "" is the call without a webhookId, which
\* the method does not test
DeleteWebhook(id) == Call("deleteWebhook", ForwardResult, id, <<>>)

\* uploadFile(options): file and fileName tell whether options has them
UploadResult(file, fileName) ==
  IF EnsureConnectedThrows THEN "notConnected"
  ELSE IF ~file \/ ~fileName THEN "validation"
  ELSE "sent"

UploadFile(file, fileName) ==
  Call("uploadFile", UploadResult(file, fileName), "",
       [file |-> file, fileName |-> fileName])

\* the methods that call fetch() themselves instead of _request()
DirectOps == {"uploadFile"}

\* the methods that return the response of their request as it is
ForwardOps == {"queryEvents", "deleteWebhook"}

\* A 2xx response with headers h to request r; registry is what the
\* continuation of the method leaves in this.activeWatchers.
Response(r, h, registry, info) ==
  /\ requests' = Remove(requests, r)
  /\ rateLimit' = TrackRateLimit(rateLimit, h)
  /\ activeWatchers' = registry
  /\ last' = [op |-> "response", of |-> requests[r].op, ok |-> TRUE,
              info |-> info, headers |-> h]
  /\ ResourceFrame

\* the response of POST .../watch: the watcher is stored under its id
WatchOk(r, id, val, h) ==
  /\ requests[r].op = "watch"
  /\ Response(r, h, MapSet(activeWatchers, id, val), <<id, val>>)

\* the response of DELETE /events/watch/:id: the id is removed
UnwatchOk(r, h) ==
  /\ requests[r].op = "unwatch"
  /\ Response(r, h, MapDelete(activeWatchers, requests[r].id), <<>>)

\* a refresh that sets the listed watchers without clearing the map first
ListOkNoClear(r, ws, h) ==
  /\ requests[r].op = "getActiveWatchers"
  /\ Response(r, h, SetAll(activeWatchers, ws), ws)

\* the response of GET /events/watchers: clear(), then one set() per watcher
ListOk(r, ws, h) ==
  /\ requests[r].op = "getActiveWatchers"
  /\ Response(r, h, SetAll(<<>>, ws), ws)

\* a 2xx response of GET /events/watchers whose body is not the documented
\* one: response.watchers is ws followed by a null, or (ws = <<>>) is not
\* there at all.  clear() and the set() calls for ws have run when the loop
\* throws a TypeError, with which getActiveWatchers() rejects.
ListBroken(r, ws, h) ==
  /\ requests[r].op = "getActiveWatchers"
  /\ requests' = Remove(requests, r)
  /\ rateLimit' = TrackRateLimit(rateLimit, h)
  /\ activeWatchers' = SetAll(<<>>, ws)
  /\ last' = [op |-> "response", of |-> requests[r].op, ok |-> FALSE,
              info |-> ws, headers |-> h]
  /\ ResourceFrame

\* the response of a method that only returns it
QueryOk(r, h) ==
  /\ requests[r].op \in ForwardOps
  /\ Response(r, h, activeWatchers, <<>>)

\* _request() throws: failure f, with the headers h of the response when
\* there is one
RequestFail(r, h, f) ==
  /\ requests[r].op \notin DirectOps
  /\ f.status = 0 => h = NoHeaders
  /\ requests' = Remove(requests, r)
  /\ rateLimit' = TrackRateLimit(rateLimit, h)
  /\ last' = [op |-> "response", of |-> requests[r].op, ok |-> FALSE,
              info |-> [failure |-> f, error |-> RequestError(f)],
              headers |-> h]
  /\ UNCHANGED activeWatchers
  /\ ResourceFrame

\* The outcome of the fetch() of uploadFile(): a 2xx response (ok) or a
\* non-2xx one, with headers h, which nothing reads; or (h = NoHeaders) no
\* response.
UploadDone(r, h, ok) ==
  /\ requests[r].op \in DirectOps
  /\ requests' = Remove(requests, r)
  /\ last' = [op |-> "response", of |-> requests[r].op, ok |-> ok,
              info |-> <<>>, headers |-> h]
  /\ UNCHANGED <<rateLimit, activeWatchers>>
  /\ ResourceFrame

\* --------------------------------------------------------- specifications
\* The server, the socket.io transport and the timers.
Environment ==
  \/ \E i \in DOMAIN connects : ValidateOk(i, NoHeaders, NoIdentity)
  \/ \E i \in DOMAIN connects : ValidateFail(i, NoHeaders)
  \/ \E s \in DOMAIN attempts : SocketConnect(s)
  \/ \E s \in DOMAIN attempts : SocketServerDisconnect(s)
  \/ \E s \in DOMAIN attempts : SocketTransportClose(s)
  \/ \E s \in DOMAIN attempts : SocketConnectError(s)
  \/ \E a \in DOMAIN attempts : ConnectionTimeout(a)
  \/ ReconnectTimer

\* Spec: the connection lifecycle.  The application calls connect(),
\* disconnect() and retryWebSocketConnection() in any order, also while
\* earlier calls are in flight.
Next ==
  \/ ConnectCall
  \/ Disconnect
  \/ RetryCall
  \/ Environment

Spec == Init /\ [][Next]_vars

\* SpecWatch: the connection lifecycle with resource calls.  The application
\* calls connect(), disconnect() and watch(); it calls connect() only when
\* no earlier connect() is in flight.
NextWatch ==
  \/ (connects = <<>> /\ ConnectCall)
  \/ Disconnect
  \/ \E ns \in {"none", "webhookUrl"} : Watch(TRUE, ns)
  \/ \E r \in DOMAIN requests : WatchOk(r, "w1", "a", NoHeaders)
  \/ \E r \in DOMAIN requests : RequestFail(r, NoHeaders, NoResponse)
  \/ Environment

SpecWatch == Init /\ [][NextWatch]_vars

\* SpecListeners: the listener table and the dispatch of inbound messages.
\* The application calls connect() (only when none is in flight), on(),
\* off() and disconnect(); the server answers, the sockets connect or time
\* out, and 'event' and 'notification' messages arrive on connected
\* sockets.  No socket is disconnected by the server here, so the
\* reconnection options are held at one value.
ListenerTags == {"detection", "all", "constructor"}
EventTypes == {"none", "all", "constructor"}

InitListeners == Init /\ ~cfg.autoReconnect /\ cfg.reconnectAttempts = 1

NextListeners ==
  \/ (connects = <<>> /\ ConnectCall)
  \/ Disconnect
  \/ \E i \in DOMAIN connects : ValidateOk(i, NoHeaders, NoIdentity)
  \/ \E s \in DOMAIN attempts : SocketConnect(s)
  \/ \E a \in DOMAIN attempts : ConnectionTimeout(a)
  \/ \E tag \in ListenerTags, cb \in {"f", "boom"} :
       Registrations(eventListeners) < MaxListeners /\ On(tag, cb)
  \/ \E tag \in ListenerTags, cb \in {"none", "f"} : Off(tag, cb)
  \/ \E s \in DOMAIN attempts, eventType \in EventTypes :
       SocketMessage(s, "event", eventType)
  \/ \E s \in DOMAIN attempts, eventType \in {"none", "detection"} :
       SocketMessage(s, "notification", eventType)

SpecListeners == InitListeners /\ [][NextListeners]_vars

\* SpecIdentity: connect() and the identity it caches and returns.  The
\* application calls connect() and disconnect() in any order, also while
\* earlier connect() calls are in flight; the server answers each validation
\* request with one of two identities or not at all; the sockets connect,
\* fail or time out.
Bodies == {Identity1, Identity2}

InitIdentity == Init /\ ~cfg.autoReconnect /\ cfg.reconnectAttempts = 1

NextIdentity ==
  \/ ConnectCall
  \/ Disconnect
  \/ \E i \in DOMAIN connects, body \in Bodies :
       ValidateOk(i, NoHeaders, body)
  \/ \E i \in DOMAIN connects : ValidateFail(i, NoHeaders)
  \/ \E s \in DOMAIN attempts : SocketConnect(s)
  \/ \E s \in DOMAIN attempts : SocketConnectError(s)
  \/ \E a \in DOMAIN attempts : ConnectionTimeout(a)

SpecIdentity == InitIdentity /\ [][NextIdentity]_vars

\* SpecRegistry: the resource methods and the watch registry of a session
\* without a stream (enableWebSocket: false).  The application calls
\* connect() (only when none is in flight), disconnect(), watch(), unwatch(),
\* getActiveWatchers(), queryEvents() and deleteWebhook(); the server
\* answers each request, with or without rate-limit headers and with the
\* documented body or (GET /events/watchers) a broken one, or the request
\* fails.
WatcherIds == {"w1", "w2"}
Watchers == [id : WatcherIds, val : {"a", "b"}]
WatcherLists ==
  {<<>>} \cup {<<w>> : w \in Watchers}
         \cup {<<[id |-> "w1", val |-> "a"], [id |-> i, val |-> "b"]>> :
                 i \in WatcherIds}
HeadersTried == {NoHeaders, [present |-> {"remaining"}, val |-> 7]}

InitRegistry ==
  Init /\ ~cfg.enableWebSocket /\ ~cfg.autoReconnect
       /\ cfg.reconnectAttempts = 1

NextRegistry ==
  \/ (connects = <<>> /\ ConnectCall)
  \/ \E i \in DOMAIN connects, h \in HeadersTried :
       ValidateOk(i, h, NoIdentity)
  \/ \E i \in DOMAIN connects, h \in HeadersTried : ValidateFail(i, h)
  \/ Disconnect
  \/ \E target \in BOOLEAN, ns \in {"none", "webhookUrl", "webhookNoUrl"} :
       Watch(target, ns)
  \/ \E id \in WatcherIds \cup {""} : Unwatch(id)
  \/ GetActiveWatchers
  \/ QueryEvents
  \/ \E id \in {"", "h1"} : DeleteWebhook(id)
  \/ \E r \in DOMAIN requests, w \in Watchers, h \in HeadersTried :
       WatchOk(r, w.id, w.val, h)
  \/ \E r \in DOMAIN requests, h \in HeadersTried : UnwatchOk(r, h)
  \/ \E r \in DOMAIN requests, ws \in WatcherLists, h \in HeadersTried :
       ListOk(r, ws, h)
  \/ \E r \in DOMAIN requests, w \in {<<>>, <<[id |-> "w2", val |-> "b"]>>} :
       ListBroken(r, w, NoHeaders)
  \/ \E r \in DOMAIN requests, h \in HeadersTried : QueryOk(r, h)
  \/ \E r \in DOMAIN requests, h \in HeadersTried :
       RequestFail(r, h, IF h = NoHeaders THEN NoResponse ELSE NotFound)

SpecRegistry == InitRegistry /\ [][NextRegistry]_vars

\* SpecRequest: the errors and the rate-limit snapshot of _request().  On a
\* session without a stream the application calls connect() (only when
\* none is in flight), disconnect(), queryEvents() and uploadFile(); each
\* request is answered, with any of the header sets, or fails with any of
\* the failures.
RateValues == {3, 7}
RateHeaders ==
  {NoHeaders} \cup [present : {{"remaining"}, {"limit", "reset"}, RateFields},
                    val : RateValues]

InitRequest == InitRegistry /\ cfg.socketAvail

NextRequest ==
  \/ (connects = <<>> /\ ConnectCall)
  \/ \E i \in DOMAIN connects, h \in RateHeaders :
       ValidateOk(i, h, NoIdentity)
  \/ \E i \in DOMAIN connects, h \in RateHeaders : ValidateFail(i, h)
  \/ Disconnect
  \/ QueryEvents
  \/ \E file, fileName \in BOOLEAN : UploadFile(file, fileName)
  \/ \E r \in DOMAIN requests, h \in RateHeaders : QueryOk(r, h)
  \/ \E r \in DOMAIN requests, f \in Failures, h \in RateHeaders :
       RequestFail(r, h, f)
  \/ \E r \in DOMAIN requests, h \in RateHeaders, ok \in BOOLEAN :
       UploadDone(r, h, ok)

SpecRequest == InitRequest /\ [][NextRequest]_vars

\* ------------------------------------------------------------------ claims
\* the jobs started by the stream: socket.io events and the two timers
StreamOps == {"sockConnect", "sockServerDisconnect", "sockTransportClose",
              "sockConnectError", "connTimeout", "reconnectTimer"}

\* C1: a connect() called while isConnecting is true is rejected with
\* 'Connection already in progress': it starts no validation request and
\* leaves the connect() in flight, isConnecting and the rest of the session
\* as they were.
C1_SecondConnectRejected ==
  [][(isConnecting /\ last'.op = "connect")
       => /\ last'.connect = "inProgress"
          /\ connects' = connects
          /\ isConnecting'
          /\ UNCHANGED <<isConnected, socket, attempts, requests>>]_vars

C1_Witness ==
  /\ last.op = "connect"
  /\ last.connect = "inProgress"
  /\ Len(connects) = 1
  /\ connects[1].pc = "validate"
  /\ isConnecting

\* C2: in every reachable state at most one connect() invocation is in
\* flight.
C2_AtMostOneConnectInFlight == Len(connects) <= 1

\* C3: a connect() whose validation succeeded and whose stream setup fails
\* (io() throwing, connect_error, the timeout) resolves and leaves the
\* session connected; and on a connected session watch() passes the connected
\* check and, given a webhook with its URL, sends its request whether or not
\* the stream is up.
C3_SetupFailureStillConnects ==
  /\ (/\ last.op \in {"validateOk", "sockConnectError", "connTimeout"}
      /\ last.connect # "none"
      /\ (last.settled = "rejected" \/ last.setup = "failed"))
       => (last.connect = "resolved" /\ isConnected /\ ~isConnecting)
  /\ (last.op = "watch" /\ isConnected)
       => /\ last.result # "notConnected"
          /\ last.info.ns = "webhookUrl" => last.result = "sent"

C3_Witness ==
  /\ last.op = "connTimeout"
  /\ last.settled = "rejected"
  /\ last.connect = "resolved"
  /\ isConnected
  /\ ~SocketConnected(attempts, socket)

\* C4: no job started by the stream (a socket.io event, the connection
\* timeout, the reconnect timer whether it attempts or has run out of
\* attempts) takes a connected session out of isConnected.
C4_StreamEventsKeepConnected ==
  [][(isConnected /\ last'.op \in StreamOps) => isConnected']_vars

C4_Witness ==
  /\ last.op = "reconnectTimer"
  /\ last.setup = "none"
  /\ reconnectCount >= cfg.reconnectAttempts
  /\ isConnected

\* C5: a dispatched event invokes exactly the callbacks registered under its
\* type (under 'detection' without an eventType) followed by those under
\* 'all', each as often as it is registered, in registration order.
Registered(ls, type) ==
  (IF type \in OwnTags \ {"all"} THEN ls[type] ELSE <<>>) \o ls["all"]

C5_DispatchInvokesRegistered ==
  last.op = "message" => last.invoked = Registered(eventListeners, last.type)

\* C6: a callback that throws does not end the dispatch: the callbacks after
\* it under the same tag and those under 'all' are still called, and no
\* exception of a callback leaves _dispatchEvent.
C6_ThrowingCallbackIsolated ==
  (last.op = "message" /\ last.type \in OwnTags)
    => /\ last.threw = "no"
       /\ last.invoked = eventListeners[last.type] \o eventListeners["all"]

C6_Witness ==
  /\ last.op = "message"
  /\ last.type = "detection"
  /\ eventListeners["detection"] = <<"f", "boom", "f">>
  /\ last.invoked = <<"f", "boom", "f">>

\* C7: with autoReconnect and reconnectAttempts = N, no more than N automatic
\* reconnect attempts are made over repeated server disconnects.
C7_AtMostNAutomaticAttempts == autoAttempts <= cfg.reconnectAttempts

C9_RetryNeverThrows == last.op = "retry" => last.retry # "threw"

\* C10: right after disconnect() the socket it found has been disconnected,
\* this.socket is null, isConnected and isConnecting are false,
\* reconnectCount is 0 and the registry is empty.
C10_DisconnectResetsSession ==
  last.op = "disconnect"
    => /\ socket = 0
       /\ last.hadSocket => last.closed
       /\ ~isConnected
       /\ ~isConnecting
       /\ reconnectCount = 0
       /\ activeWatchers = <<>>

C10_Witness ==
  /\ last.op = "disconnect"
  /\ last.hadSocket
  /\ last.hadWatchers
  /\ last.count > 0

\* C11: a reconnect timer or connection-timeout timer that fires right after
\* disconnect() starts no setup attempt, creates no socket and leaves
\* this.socket null and reconnectCount 0.
C11_TimersDeadAfterDisconnect ==
  [][(last.op = "disconnect" /\ last'.op \in {"reconnectTimer", "connTimeout"})
       => /\ socket' = 0
          /\ reconnectCount' = 0
          /\ last'.setup = "none"]_vars

\* C12: disconnect() leaves no tag with a registered callback, and a
\* reconnect attempt of the reconnect timer leaves the registrations as they
\* were.
C12_DisconnectClearsListeners ==
  [][/\ last'.op = "disconnect" => Registrations(eventListeners') = 0
     /\ last'.op = "reconnectTimer" => eventListeners' = eventListeners]_vars

\* the resource methods of the model
ResourceOps ==
  {"watch", "unwatch", "getActiveWatchers", "queryEvents", "deleteWebhook"}

\* C13: a resource method called while isConnected is false throws the
\* not-connected error: it issues no request and leaves the registry and the
\* rate-limit snapshot as they were.
C13_NotConnectedFailsFirst ==
  [][(last'.op \in ResourceOps /\ ~isConnected)
       => /\ last'.result = "notConnected"
          /\ UNCHANGED <<requests, activeWatchers, rateLimit>>]_vars

C13_Witness ==
  /\ last.op = "unwatch"
  /\ last.id = ""
  /\ last.result = "notConnected"
  /\ rateLimit.remaining # 0
  /\ activeWatchers # <<>>

\* C14: on a connected session, watch() given a target and no
\* notificationSettings while the stream is not connected takes the method
\* 'webhook' without a URL and throws the validation error: no request is
\* sent and the registry is left as it was.
C14_DefaultWebhookFailsValidation ==
  [][(/\ last'.op = "watch"
      /\ isConnected
      /\ last'.info.target
      /\ last'.info.ns = "none"
      /\ ~SocketConnected(attempts, socket))
       => /\ last'.info.method = "webhookNoUrl"
          /\ last'.result = "validation"
          /\ UNCHANGED <<requests, activeWatchers>>]_vars

C14_Witness ==
  /\ last.op = "watch"
  /\ last.result = "validation"
  /\ last.info.target
  /\ last.info.ns = "none"
  /\ cfg.enableWebSocket
  /\ SocketIsEnabled
  /\ isConnected
  /\ activeWatchers # <<>>

\* whether a call recorded in last lacked its required parameter
MissingRequired(job) ==
  \/ job.op = "watch" /\ ~job.info.target
  \/ job.op \in {"unwatch", "deleteWebhook"} /\ job.id = ""

\* C15: on a connected session a facade method called without its required
\* parameter (watch target, unwatch watcherId, deleteWebhook webhookId) throws
\* a validation error and issues no request.
C15_MissingParameterFailsLocally ==
  (last.op \in ResourceOps /\ isConnected /\ MissingRequired(last))
    => last.result = "validation"

\* the value the list ws gives last for id
LatestVal(ws, id) ==
  ws[CHOOSE k \in DOMAIN ws :
       ws[k].id = id /\ \A j \in DOMAIN ws : j > k => ws[j].id # id].val

\* C16: when a getActiveWatchers() resolves, the registry holds exactly the
\* watchers of the response, one entry per listed id with the value listed
\* last for it, and nothing of what it held before; it is empty when the
\* response lists none.  The replacement is one step: no state lies between
\* the clear() and the last set().
C16_RefreshReplacesRegistry ==
  (last.op = "response" /\ last.of = "getActiveWatchers" /\ last.ok)
    => /\ \A k \in DOMAIN last.info :
            \E j \in DOMAIN activeWatchers :
              activeWatchers[j] =
                [id |-> last.info[k].id,
                 val |-> LatestVal(last.info, last.info[k].id)]
       /\ \A j \in DOMAIN activeWatchers :
            \E k \in DOMAIN last.info : last.info[k].id = activeWatchers[j].id
       /\ \A i, j \in DOMAIN activeWatchers :
            activeWatchers[i].id = activeWatchers[j].id => i = j

C16_Witness ==
  /\ last.op = "response" /\ last.of = "getActiveWatchers" /\ last.ok
  /\ last.info = <<[id |-> "w1", val |-> "a"], [id |-> "w1", val |-> "b"]>>
  /\ activeWatchers = <<[id |-> "w1", val |-> "b"]>>

\* C17: the registry never holds two entries with the same watcher id, and
\* after the response of a watch() the id it returned has its one entry with
\* the value of that response, whether or not the id was there before.
C17_OneEntryPerId ==
  /\ \A i, j \in DOMAIN activeWatchers :
       activeWatchers[i].id = activeWatchers[j].id => i = j
  /\ (last.op = "response" /\ last.of = "watch" /\ last.ok)
       => \E j \in DOMAIN activeWatchers :
            activeWatchers[j] = [id |-> last.info[1], val |-> last.info[2]]

\* w1 stands before w2, so it was there when the last watch() returned it
C17_Witness ==
  /\ last.op = "response" /\ last.of = "watch" /\ last.ok
  /\ last.info = <<"w1", "b">>
  /\ activeWatchers = <<[id |-> "w1", val |-> "b"], [id |-> "w2", val |-> "a"]>>

\* C18: the registry changes only in the step in which a watch(), an
\* unwatch() or a getActiveWatchers() resolves and in disconnect(); a call
\* that throws or rejects leaves it as it was.
C18_RegistryChangedOnlyBySuccess ==
  [][activeWatchers' # activeWatchers
       => \/ last'.op = "disconnect"
          \/ /\ last'.op = "response" /\ last'.ok
             /\ last'.of \in {"watch", "unwatch", "getActiveWatchers"}]_vars

\* C19: on(tag, callback) with a function callback returns normally and has
\* appended the callback to the listeners of tag, whatever becomes of the
\* stream setup it starts; and no step of the stream (a failed or timed-out
\* setup attempt included) changes the listener table.
C19_OnAlwaysRegisters ==
  [][/\ (last'.op = "on" /\ IsFunction(last'.cb))
          => /\ ~last'.threw
             /\ eventListeners' =
                  [eventListeners EXCEPT ![last'.tag] = Append(@, last'.cb)]
     /\ last'.op \in StreamOps => eventListeners' = eventListeners]_vars

\* C20: every stream-setup attempt settles at the latest when its
\* connectionTimeout elapses: an attempt whose timer is no longer armed (it
\* fired, or the connect acknowledgment cleared it) has resolved or rejected.
C20_SetupSettlesByTimeout ==
  \A a \in DOMAIN attempts : ~attempts[a].armed => ~attempts[a].pending

\* C21: no connect() stays in flight for ever: a connect() that awaits its
\* stream setup is resumed at the latest when the connectionTimeout of that
\* attempt elapses, so while it is still waiting that timer is still armed.
C21_ConnectNeverStuck ==
  \A i \in DOMAIN connects :
    connects[i].pc = "setup" => attempts[connects[i].att].armed

\* C22: when the validation request of a connect() fails, that connect()
\* rejects, isConnected and isConnecting are false afterwards, the step makes
\* no stream-setup attempt and touches no socket, and the guard of connect()
\* lets the next call pass.
C22_ValidationFailureDisconnects ==
  [][last'.op = "validateFail"
       => /\ last'.connect = "rejected"
          /\ ~isConnected' /\ ~isConnecting'
          /\ last'.setup = "none"
          /\ attempts' = attempts /\ socket' = socket
          /\ ~ConnectGuard']_vars

C22_Witness ==
  /\ last.op = "validateFail" /\ last.connect = "rejected"
  /\ cfg.enableWebSocket /\ SocketIsEnabled
  /\ connects = <<>> /\ ~isConnecting

\* C23: after the step in which a socket receives its connect acknowledgment
\* (the first connection or an automatic reconnect) reconnectCount is 0.
C23_ConnectResetsCounter ==
  last.op = "sockConnect" => reconnectCount = 0

\* the acknowledgment of a socket that an automatic reconnect created
C23_Witness ==
  /\ last.op = "sockConnect" /\ last.settled = "resolved"
  /\ autoAttempts > 0 /\ reconnectCount = 0

\* C24: a 'notification' message is dispatched under the tag 'notification'
\* whatever eventType its payload carries: the listeners of 'notification'
\* and of 'all' are called, those of the payload's eventType are not.  An
\* 'event' message is dispatched under its eventType, or under 'detection'
\* when it has none.
C24_NotificationTagOverrides ==
  last.op = "message"
    => /\ last.message = "notification"
            => /\ last.type = "notification"
               /\ last.invoked =
                    eventListeners["notification"] \o eventListeners["all"]
       /\ last.message = "event"
            => last.type = IF last.eventType = "none" THEN "detection"
                           ELSE last.eventType

C24_Witness ==
  /\ last.op = "message" /\ last.message = "notification"
  /\ last.eventType = "detection"
  /\ eventListeners["detection"] = <<"f">>
  /\ eventListeners["all"] = <<"boom">>
  /\ last.invoked = <<"boom">>

\* the jobs in which a connect() can resolve
ResolvingOps == {"validateOk"} \cup StreamOps

\* C25 (as written): a connect() resolves with exactly
\* {connected: true, user, organization}, the cached identity.
C25_ResultIsIdentityOnly ==
  (last.op \in ResolvingOps /\ last.connect = "resolved")
    => last.returned =
         [connected |-> TRUE, user |-> user, organization |-> organization]

\* C25: a validation answer {user: U, organization: O} is cached in
\* this.user and this.organization; a connect() that resolves returns
\* {connected: true, user, organization, websocketEnabled} with the cached
\* identity and with websocketEnabled telling whether the stream socket is
\* connected at that moment, and it leaves isConnected true and isConnecting
\* false.
C25_ResultCarriesStreamFlag ==
  /\ last.op = "validateOk"
       => user = last.body.user /\ organization = last.body.organization
  /\ (last.op \in ResolvingOps /\ last.connect = "resolved")
       => /\ last.returned =
               [connected |-> TRUE, user |-> user,
                organization |-> organization,
                websocketEnabled |-> SocketConnected(attempts, socket)]
          /\ isConnected /\ ~isConnecting

C25_Witness ==
  /\ last.op = "sockConnect" /\ last.connect = "resolved"
  /\ last.returned.websocketEnabled
  /\ last.returned.user = "u2" /\ last.returned.organization = "o2"

\* the category the response status gives a failed request
Category(status) ==
  IF status = 0 THEN "TransportError"
  ELSE IF status = 401 THEN "Unauthorized"
  ELSE IF status = 403 THEN "Forbidden"
  ELSE IF status = 404 THEN "NotFound"
  ELSE IF status >= 500 THEN "ServerError"
  ELSE "ClientError"

\* C26: the error of a failed request tells its category, which the status
\* alone decides: no failure of another category produces the same error.
C26_ErrorTellsCategory ==
  (last.op = "response" /\ ~last.ok)
    => \A f \in Failures :
         RequestError(f) = last.info.error
           => Category(f.status) = Category(last.info.failure.status)

\* the jobs that handle the outcome of a _request() call
Tracked(job) ==
  \/ job.op \in {"validateOk", "validateFail"}
  \/ job.op = "response" /\ job.of \notin DirectOps

\* C27: the outcome of a request writes exactly the fields of the rate-limit
\* snapshot whose header its response carries, with the header's number; a
\* field whose header is absent keeps its value and is not zeroed, and
\* every other step (disconnect(), a request without a response, a call
\* that sends nothing, the outcome of an upload) leaves the snapshot as it
\* is.
C27_OnlyPresentHeadersWritten ==
  [][\A f \in RateFields :
       IF Tracked(last') /\ f \in last'.headers.present
         THEN rateLimit'[f] = last'.headers.val
         ELSE rateLimit'[f] = rateLimit[f]]_vars

\* a response carrying only X-RateLimit-Remaining after one that carried
\* the other two headers
C27_Witness ==
  /\ last.op = "response" /\ last.ok
  /\ last.headers = [present |-> {"remaining"}, val |-> 3]
  /\ rateLimit = [limit |-> 7, remaining |-> 3, reset |-> 7]

\* C28: off(tag, callback) returns normally and removes every occurrence of
\* the callback under the tag, off(tag) removes all registrations of the
\* tag, and in both cases the other registrations and their order stay; on
\* a tag without registrations off() changes nothing.
C28_OffRemovesOnlyItsOwn ==
  [][last'.op = "off"
       => /\ ~last'.threw
          /\ eventListeners' =
               IF last'.tag \in OwnTags
                 THEN [eventListeners EXCEPT
                         ![last'.tag] = IF last'.cb = "none" THEN <<>>
                                        ELSE SelectSeq(@, LAMBDA c :
                                                            c # last'.cb)]
                 ELSE eventListeners]_vars

\* C29: a disconnect() that directly follows a disconnect() finds no socket
\* to close and changes no part of the session.
C29_DisconnectIdempotent ==
  [][(last.op = "disconnect" /\ last'.op = "disconnect")
       => /\ ~last'.hadSocket /\ ~last'.closed
          /\ UNCHANGED <<cfg, isConnected, isConnecting, reconnectCount,
                         socket, attempts, timers, connects, retries,
                         eventListeners, activeWatchers, requests, rateLimit,
                         user, organization>>]_vars

\* the second of two disconnect() calls, made while a connect() and a
\* watch() request are still in flight
C29_Witness ==
  /\ last.op = "disconnect" /\ last.again
  /\ connects # <<>> /\ requests # <<>>

\* C30: on a connected session a watch() with a target and without
\* notificationSettings takes the method 'socket' exactly when the stream
\* socket is connected at the call, and then sends its request; in every
\* other case, the stream enabled but not connected included, it takes
\* 'webhook' (without a URL).
C30_DefaultMethodFollowsStream ==
  (last.op = "watch" /\ last.result # "notConnected"
     /\ last.info.target /\ last.info.ns = "none")
    => /\ last.info.streamUp = SocketConnected(attempts, socket)
       /\ IF last.info.streamUp
            THEN last.info.method = "socket" /\ last.result = "sent"
            ELSE last.info.method = "webhookNoUrl"

C30_Witness ==
  /\ last.op = "watch" /\ last.info.ns = "none"
  /\ last.info.streamUp /\ last.info.method = "socket"
  /\ last.result = "sent"
  /\ requests # <<>>

\* C31: once disconnect() has returned, a connect() that was in flight when
\* it was called does nothing more to the session: the validation answer or
\* the setup outcome that arrives next leaves isConnected false and
\* this.socket null.
C31_InFlightConnectDeadAfterDisconnect ==
  [][(/\ last.op = "disconnect"
      /\ last'.op \in {"validateOk", "sockConnectError", "connTimeout"})
       => (~isConnected' /\ socket' = 0)]_vars

\* C32: in every reachable state in which isConnected is false the watch
\* registry is empty.
C32_RegistryEmptyWhenDisconnected == ~isConnected => activeWatchers = <<>>

\* the attempt whose connectionTimeout fires next: the one armed first
FirstArmed ==
  CHOOSE a \in DOMAIN attempts :
    attempts[a].armed /\ \A b \in 1..(a - 1) : ~attempts[b].armed

\* C33: the connectionTimeout of a setup attempt touches only the socket of
\* that attempt: when it fires while this.socket is the socket of another
\* attempt, that socket stays as it was and stays this.socket.
C33_TimeoutTouchesOwnSocketOnly ==
  [][(last'.op = "connTimeout" /\ socket # 0 /\ socket # FirstArmed)
       => (socket' # 0 /\ attempts'[socket'].st = attempts[socket].st)]_vars

\* the jobs that can call _setupWebSocket()
SetupOps == {"validateOk", "on", "retry", "reconnectTimer"}

\* C34: at most one setup attempt is pending at any time: while the promise
\* of one attempt is pending, no job creates the socket of another.
C34_OnePendingSetup ==
  [][(/\ last'.op \in SetupOps
      /\ \E a \in DOMAIN attempts : attempts[a].pending)
       => last'.setup # "created"]_vars

\* C35: at most one socket is live: every socket other than this.socket has
\* been disconnected, this.socket is null or the socket created last, and
\* so the socket an inbound message comes from is this.socket.
C35_AtMostOneLiveSocket ==
  /\ \A a \in DOMAIN attempts : attempts[a].st # "closed" => socket = a
  /\ socket # 0 => socket = Len(attempts)
  /\ last.op = "message"
       => Cardinality({a \in DOMAIN attempts : attempts[a].st = "up"}) = 1

\* on() has replaced a socket that was still opening
C35_Witness ==
  /\ last.op = "on" /\ last.setup = "created"
  /\ Len(attempts) = 2
  /\ attempts[1].st = "closed" /\ attempts[1].pending
  /\ socket = 2 /\ attempts[2].st = "opening"

\* C36: reconnectCount stays within 0..reconnectAttempts; it grows only by
\* one, in a reconnect timer that found it below reconnectAttempts, and it
\* falls only to 0, in a connect acknowledgment or in disconnect().
C36_CounterWithinBounds ==
  [][/\ reconnectCount' \in 0..cfg.reconnectAttempts
     /\ reconnectCount' > reconnectCount
          => /\ last'.op = "reconnectTimer"
             /\ reconnectCount < cfg.reconnectAttempts
             /\ reconnectCount' = reconnectCount + 1
     /\ reconnectCount' < reconnectCount
          => /\ reconnectCount' = 0
             /\ last'.op \in {"sockConnect", "disconnect"}]_vars

\* the reconnect timer's attempt that takes the counter to its maximum of 2
C36_Witness ==
  /\ last.op = "reconnectTimer" /\ last.setup = "created"
  /\ cfg.reconnectAttempts = 2
  /\ reconnectCount = 2

\* C37: this.socket is non-null only while the session is connecting or
\* connected.
C37_SocketOnlyWhenConnectingOrConnected ==
  socket # 0 => (isConnecting \/ isConnected)

\* how often cb occurs in cbs
Occurrences(cbs, cb) == Len(SelectSeq(cbs, LAMBDA c : c = cb))

\* how often cb is registered in the listener table
TimesRegistered(ls, cb) ==
  SumLen([t \in OwnTags |-> SelectSeq(ls[t], LAMBDA c : c = cb)], OwnTags)

\* C38: a dispatched event calls each registration at most once: no callback
\* is called more often than it is registered.
C38_EachRegistrationOnce ==
  last.op = "message"
    => \A cb \in Callbacks :
         Occurrences(last.invoked, cb) <= TimesRegistered(eventListeners, cb)

\* C39: a request that was answered with a non-2xx status is never reported
\* as a network error, whatever message the answer carries.
C39_ResponseNeverNetworkError ==
  (/\ last.op = "response" /\ ~last.ok /\ last.of \notin DirectOps
   /\ last.info.failure.status # 0)
    => last.info.error[1] # "Network error: Unable to connect to "

====
